---- MODULE Spec2Model ----
(***************************************************************************)
(* Model of the fuelflow back office: the sale recording flow, the sale    *)
(* edit and delete routes and the payment routes of server/routes.ts, over *)
(* the tables of shared/schema.ts.  Amounts are integers (one unit stands  *)
(* for one unit of the decimal column); absent optional amounts are the    *)
(* column default 0.                                                       *)
(***************************************************************************)
EXTENDS Integers, Sequences, FiniteSets, TLC

\* ---------------------------------------------------------------- bounds
MaxSales == 2
MaxPayments == 1
MaxItems == 2
MaxClock == 2
MaxInflight == 2
MaxTankSales == 1
MaxEditSales == 1
MaxOrders == 2
MaxMovements == 2

\* --------------------------------------------------------- fixed entities
Customers == {"c1", "c2"}
Suppliers == {"s1", "s2"}
Tanks == {"t1"}
Stations == {"st1", "st2"}
Missing == "undefined"

\* paymentMethodEnum of the schema
PaymentMethods == {"cash", "card", "credit", "fleet"}

\* The authenticated callers (req.user): id, role and station.
Users ==
  { [id |-> "admin1", role |-> "admin", stationId |-> "st1"],
    [id |-> "mgr2", role |-> "manager", stationId |-> "st2"],
    [id |-> "cash1", role |-> "cashier", stationId |-> "st1"],
    [id |-> "cash0", role |-> "cashier", stationId |-> ""] }

\* Seeded balances and stock (scaled).
InitialCustomerOutstanding == [c \in Customers |-> IF c = "c1" THEN 0 ELSE 15]
InitialSupplierOutstanding == [s \in Suppliers |-> IF s = "s1" THEN 45 ELSE 0]
InitialStock == [t \in Tanks |-> 10]

\* SAL + last six digits of the millisecond clock: the clock modulo 10^6,
\* scaled to the clock modulo InvoiceModulus.
InvoiceModulus == 2
InvoiceNumber(clock) == clock % InvoiceModulus

VARIABLES
  customers,              \* customer id -> outstandingAmount
  suppliers,              \* supplier id -> outstandingAmount
  tanks,                  \* tank id -> currentStock
  salesTransactions,      \* set of sales_transactions rows
  salesTransactionItems,  \* sales_transaction_items rows in insertion order
  stockMovements,         \* stock_movements rows in insertion order
  payments,               \* set of payments rows
  nextSaleId,             \* ids handed out to sales_transactions rows
  nextPaymentId,          \* ids handed out to payments rows
  now,                    \* Date.now()
  resp,                   \* the response of the last request
  inflight,               \* requests between two awaits (interleaved runs)
  purchaseOrders,         \* purchase_orders rows
  purchaseOrderItems,     \* purchase_order_items rows, in insertion order
  settings,               \* settings rows
  nextOrderId,            \* id of the next purchase order
  accounts,               \* accounts rows (chart of accounts)
  users,                  \* users rows
  tokens                  \* the usernames generateToken has signed a token for

vars == <<customers, suppliers, tanks, salesTransactions, salesTransactionItems,
          stockMovements, payments, nextSaleId, nextPaymentId, now, resp, inflight,
          purchaseOrders, purchaseOrderItems, settings, nextOrderId, accounts, users,
          tokens>>

tables == <<customers, suppliers, tanks, salesTransactions, salesTransactionItems,
            stockMovements, payments>>

purchasing == <<purchaseOrders, purchaseOrderItems, settings, nextOrderId>>

administration == <<accounts, users, tokens>>

\* The seeded administrator.  approvedBy records who made the account active:
\* the seed, the signup route itself ("signup") or an administrator.
\* bcrypt.hash(password, 10) and bcrypt.compare(password, hash)
hash(password) == <<"$2b$10$", password>>

compare(password, hashed) == hashed = hash(password)

InitialUsers ==
  { [username |-> "admin", password |-> hash("admin123"), role |-> "admin",
     isActive |-> TRUE, approvedBy |-> "seed"] }

Response(op, status, message, id, nItems) ==
  [op |-> op, status |-> status, message |-> message, id |-> id, nItems |-> nItems]

NoResp == Response("none", 0, "", 0, 0)

Init ==
  /\ customers = InitialCustomerOutstanding
  /\ suppliers = InitialSupplierOutstanding
  /\ tanks = InitialStock
  /\ salesTransactions = {}
  /\ salesTransactionItems = <<>>
  /\ stockMovements = <<>>
  /\ payments = {}
  /\ nextSaleId = 1
  /\ nextPaymentId = 1
  /\ now = 0
  /\ purchaseOrders = {}
  /\ purchaseOrderItems = <<>>
  /\ settings = {}
  /\ nextOrderId = 1
  /\ accounts = {}
  /\ users = InitialUsers
  /\ tokens = {}
  /\ resp = NoResp
  /\ inflight = {}

\* The clock advances between requests.
Tick ==
  /\ now < MaxClock
  /\ now' = now + 1
  /\ resp' = NoResp
  /\ UNCHANGED <<tables, nextSaleId, nextPaymentId, inflight, purchasing, administration>>

\* ------------------------------------------------------------- requests
\* POST /api/sales bodies.  The amounts of the header are computed by the
\* caller; "" is an empty customer id, "bogus" a value outside
\* paymentMethodEnum.  Items: productId Missing is an absent field, tankId ""
\* an absent or null tank.
FuelItem == [productId |-> "p1", tankId |-> "t1", quantity |-> 6,
             unitPrice |-> 1, totalPrice |-> 6]

\* The sale flow: every kind of header, one fuel item.
SaleHeaders ==
  [ stationId : {"st1"},
    customerId : {"c1", ""},
    paymentMethod : {"cash", "credit", "bogus"},
    subtotal : {10},
    taxAmount : {0},
    totalAmount : {10},
    paidAmount : {4},
    outstandingAmount : {6} ]

SaleItemLists == {<<FuelItem>>}

\* The amounts flow: a credit sale paid in part, and one paid beyond its total.
AmountHeaders ==
  [ stationId : {"st1"},
    customerId : {"c1"},
    paymentMethod : {"credit"},
    subtotal : {10},
    taxAmount : {0},
    totalAmount : {10},
    paidAmount : {4, 15},
    outstandingAmount : {6} ]

\* The balance flow: a cash and a credit sale of one customer.
BalanceHeaders ==
  [ stationId : {"st1"},
    customerId : {"c1"},
    paymentMethod : {"cash", "credit"},
    subtotal : {10},
    taxAmount : {0},
    totalAmount : {10},
    paidAmount : {4},
    outstandingAmount : {6} ]

\* The item flow: one credit header, every kind of item list.
ItemFlowHeaders ==
  [ stationId : {"st1"},
    customerId : {"c1"},
    paymentMethod : {"credit", "bogus"},
    subtotal : {10},
    taxAmount : {0},
    totalAmount : {10},
    paidAmount : {4},
    outstandingAmount : {6} ]

\* The payment-method flow: every payment method, with and without an
\* outstanding amount.
MethodHeaders ==
  [ stationId : {"st1"},
    customerId : {"c1"},
    paymentMethod : PaymentMethods,
    subtotal : {10},
    taxAmount : {0},
    totalAmount : {10},
    paidAmount : {4},
    outstandingAmount : {0, 6} ]

LubeItem == [productId |-> "p2", tankId |-> "", quantity |-> 6,
             unitPrice |-> 1, totalPrice |-> 6]

InvalidItem == [productId |-> Missing, tankId |-> "t1", quantity |-> 6,
                unitPrice |-> 1, totalPrice |-> 6]

SaleItems == {FuelItem, LubeItem, InvalidItem}

\* The three ways an item names no tank: the field is absent (Missing), null
\* ("") or the string 'null'.
NoTankIds == {Missing, "", "null"}

NoTankItems == [productId : {"p2"}, tankId : NoTankIds, quantity : {6},
                unitPrice : {1}, totalPrice : {6}]

RECURSIVE SeqsUpTo(_, _)
SeqsUpTo(S, n) ==
  IF n = 0 THEN {<<>>}
  ELSE LET shorter == SeqsUpTo(S, n - 1)
       IN shorter \cup {Append(q, x) : q \in {r \in shorter : Len(r) = n - 1}, x \in S}

ItemFlowLists == SeqsUpTo(SaleItems, MaxItems)

\* The tank flow: lists of fuel items and items without a tank.
TankFlowItems == {FuelItem} \cup NoTankItems

TankFlowLists == SeqsUpTo(TankFlowItems, MaxItems)

\* ---------------------------------------------------------- validation
\* insertSalesTransactionSchema.parse: the not-null columns must be present
\* and the payment method must be one of the enum.
ValidTransaction(t) ==
  /\ t.stationId # Missing
  /\ t.customerId # Missing
  /\ t.paymentMethod \in PaymentMethods

\* insertSalesTransactionItemSchema.parse: productId is not null.
ValidItem(item) == item.productId # Missing

UniqueInvoiceNumberNotEnforced(rows, invoiceNumber) == TRUE

\* unique() on sales_transactions.invoice_number
UniqueInvoiceNumber(rows, invoiceNumber) ==
  \A r \in rows : r.invoiceNumber # invoiceNumber

\* ------------------------------------------------------------- storage
\* storage.createStockMovement: reads the tank's currentStock, records it as
\* previousStock, adds ("in") or subtracts ("out") the quantity, stores the
\* row and writes newStock back to the tank.
NewStock(previousStock, movementType, quantity) ==
  IF movementType = "in" THEN previousStock + quantity
  ELSE previousStock - quantity

StockMovementRow(previousStock, m) ==
  [ tankId |-> m.tankId,
    movementType |-> m.movementType,
    quantity |-> m.quantity,
    previousStock |-> previousStock,
    newStock |-> NewStock(previousStock, m.movementType, m.quantity),
    referenceType |-> m.referenceType,
    referenceId |-> m.referenceId ]

\* The tank row createStockMovement reads and writes; stock_movements.tank_id
\* is no foreign key, so a movement of an unknown tank is stored with
\* previousStock 0 and updates no tank.
currentStock(ts, tankId) == IF tankId \in DOMAIN ts THEN ts[tankId] ELSE 0

setCurrentStock(ts, tankId, stock) ==
  IF tankId \in DOMAIN ts THEN [ts EXCEPT ![tankId] = stock] ELSE ts

updateCustomerOutstandingFromSeed(cs, id, amount) ==
  IF id \in DOMAIN cs THEN [cs EXCEPT ![id] = InitialCustomerOutstanding[id] + amount]
  ELSE cs

\* storage.updateCustomerOutstanding(id, amount): one storage operation that
\* raises the customer's outstandingAmount by the amount.
updateCustomerOutstanding(cs, id, amount) ==
  IF id \in DOMAIN cs THEN [cs EXCEPT ![id] = @ + amount] ELSE cs

\* ------------------------------------------------------ POST /api/sales
SalesTransactionRow(id, invoiceNumber, t) ==
  [ id |-> id,
    invoiceNumber |-> invoiceNumber,
    stationId |-> t.stationId,
    customerId |-> t.customerId,
    paymentMethod |-> t.paymentMethod,
    subtotal |-> t.subtotal,
    taxAmount |-> t.taxAmount,
    totalAmount |-> t.totalAmount,
    paidAmount |-> t.paidAmount,
    outstandingAmount |-> t.outstandingAmount ]

SalesTransactionItemRow(transactionId, item) ==
  [ transactionId |-> transactionId,
    productId |-> item.productId,
    tankId |-> item.tankId,
    quantity |-> item.quantity,
    unitPrice |-> item.unitPrice,
    totalPrice |-> item.totalPrice ]

ItemHasTankUnlessAbsent(item) == item.tankId \notin {Missing, ""}

\* if (item.tankId && item.tankId !== 'null')
ItemHasTank(item) == item.tankId \notin {Missing, ""} /\ item.tankId # "null"

SaleStockMovementIn(item, t, transactionId) ==
  [ tankId |-> item.tankId,
    movementType |-> "in",
    quantity |-> item.quantity,
    referenceType |-> "sale",
    referenceId |-> transactionId ]

SaleStockMovement(item, t, transactionId) ==
  [ tankId |-> item.tankId,
    movementType |-> "out",
    quantity |-> item.quantity,
    referenceType |-> "sale",
    referenceId |-> transactionId ]

\* One turn of the item loop on the storage state st.
SaleItemStep(st, item, t, transactionId) ==
  LET withItem == [st EXCEPT !.items =
                     Append(@, SalesTransactionItemRow(transactionId, item))]
  IN IF ItemHasTank(item)
       THEN [withItem EXCEPT
               !.movements = Append(@, StockMovementRow(currentStock(st.tanks, item.tankId),
                                 SaleStockMovement(item, t, transactionId))),
               !.tanks = setCurrentStock(@, item.tankId,
                           NewStock(currentStock(st.tanks, item.tankId), "out",
                                    item.quantity))]
       ELSE withItem

\* for (const item of items): stops at the first item that fails to parse.
RECURSIVE SaleItemsLoop(_, _, _, _, _)
SaleItemsLoop(items, i, t, transactionId, st) ==
  IF i > Len(items) THEN st
  ELSE IF ~ValidItem(items[i]) THEN [st EXCEPT !.ok = FALSE]
  ELSE SaleItemsLoop(items, i + 1, t, transactionId,
                     SaleItemStep(st, items[i], t, transactionId))

IsCreditSaleAnyMethod(t) == t.customerId # ""

\* validatedTransaction.paymentMethod === 'credit' && validatedTransaction.customerId
IsCreditSale(t) == t.paymentMethod = "credit" /\ t.customerId # ""

CreditAmountIsTotal(t) == t.totalAmount

\* parseFloat(validatedTransaction.outstandingAmount || '0')
CreditAmount(t) == t.outstandingAmount

\* The error responses of POST /api/sales, with the request they answer:
\* errors says whether the body lists field errors, error is the message of
\* the error that was caught ("" when the body has none).
SaleError(status, message, id, t, items, errors, error) ==
  [op |-> "postSales", status |-> status, message |-> message, id |-> id,
   nItems |-> Len(items), t |-> t, items |-> items, errors |-> errors, error |-> error]

\* The message of the database's unique violation.
DuplicateKey == "duplicate key value violates unique constraint"

\* The failures of storage.createSalesTransaction that are not caused by the
\* request: none (""), or the database connection is lost.
NoFailures == {""}

StorageFailures == {"", "Connection terminated unexpectedly"}

\* catch: res.status(400).json({ message: "Invalid sales data", error: ... })
InvalidSalesDataStatus == 400

PostSalesWith(headers, lists, failures) ==
  /\ nextSaleId <= MaxSales
  /\ \E t \in headers, items \in lists, failure \in failures :
       LET invoiceNumber == InvoiceNumber(now)
           id == nextSaleId
           st == SaleItemsLoop(items, 1, t, id,
                   [items |-> salesTransactionItems, movements |-> stockMovements,
                    tanks |-> tanks, ok |-> TRUE])
       IN IF ~ValidTransaction(t)
            THEN /\ resp' = SaleError(400, "Validation failed", 0, t, items, TRUE, "")
                 /\ UNCHANGED <<tables, nextSaleId>>
          ELSE IF failure # ""
            THEN /\ resp' = SaleError(InvalidSalesDataStatus, "Invalid sales data", 0,
                                       t, items, FALSE, failure)
                 /\ UNCHANGED <<tables, nextSaleId>>
          ELSE IF ~UniqueInvoiceNumber(salesTransactions, invoiceNumber)
            THEN /\ resp' = SaleError(InvalidSalesDataStatus, "Invalid sales data", 0,
                                       t, items, FALSE, DuplicateKey)
                 /\ UNCHANGED <<tables, nextSaleId>>
          ELSE /\ salesTransactions' = salesTransactions \cup
                                         {SalesTransactionRow(id, invoiceNumber, t)}
               /\ nextSaleId' = nextSaleId + 1
               /\ salesTransactionItems' = st.items
               /\ stockMovements' = st.movements
               /\ tanks' = st.tanks
               /\ customers' = IF st.ok /\ IsCreditSale(t)
                                 THEN updateCustomerOutstanding(customers, t.customerId,
                                                                CreditAmount(t))
                                 ELSE customers
               /\ resp' = IF st.ok
                            THEN Response("postSales", 201, "", id, Len(items))
                            ELSE SaleError(400, "Validation failed", id, t, items,
                                           TRUE, "")
               /\ UNCHANGED <<suppliers, payments>>
  /\ UNCHANGED <<nextPaymentId, now, inflight, purchasing, administration>>

PostSalesOf(headers, lists) == PostSalesWith(headers, lists, NoFailures)

\* The failure flow: every kind of header, a valid and an invalid item list,
\* with and without a storage failure.
FailureLists == {<<FuelItem>>, <<FuelItem, InvalidItem>>}

PostSalesFailures == PostSalesWith(SaleHeaders, FailureLists, StorageFailures)

PostSales == PostSalesOf(BalanceHeaders, SaleItemLists)

PostSalesSale == PostSalesOf(SaleHeaders, SaleItemLists)

PostSalesItems == PostSalesOf(ItemFlowHeaders, ItemFlowLists)

PostSalesAmounts == PostSalesOf(AmountHeaders, SaleItemLists)

PostSalesMethods == PostSalesOf(MethodHeaders, SaleItemLists)

PostSalesTank == nextSaleId <= MaxTankSales /\ PostSalesOf(BalanceHeaders, TankFlowLists)

\* ------------------------------------------------ PUT /api/sales/:id
SaleIds == {r.id : r \in salesTransactions}

getSalesTransaction(id) == CHOOSE r \in salesTransactions : r.id = id

\* The body of a PUT is not validated: it carries the header columns and may
\* carry an invoice number.
PutBodiesOf(headers, invoiceNumbers) ==
  {[header |-> h, setInvoiceNumber |-> FALSE, invoiceNumber |-> 0] : h \in headers}
    \cup {[header |-> h, setInvoiceNumber |-> TRUE, invoiceNumber |-> n] :
            h \in headers, n \in invoiceNumbers}

InvoiceNumbers == 0 .. (InvoiceModulus - 1)

\* The callers of the edit route in the sale and balance flows: an admin and
\* a manager of another station.
PutCallers == {u \in Users : u.id \in {"admin1", "mgr2"}}

\* storage.updateSalesTransaction(id, transaction): sets the columns of the
\* body on the row.
UpdatedSalesTransaction(row, b) ==
  [ id |-> row.id,
    invoiceNumber |-> IF b.setInvoiceNumber THEN b.invoiceNumber ELSE row.invoiceNumber,
    stationId |-> b.header.stationId,
    customerId |-> b.header.customerId,
    paymentMethod |-> b.header.paymentMethod,
    subtotal |-> b.header.subtotal,
    taxAmount |-> b.header.taxAmount,
    totalAmount |-> b.header.totalAmount,
    paidAmount |-> b.header.paidAmount,
    outstandingAmount |-> b.header.outstandingAmount ]

\* storage.deleteSalesTransactionItems(transactionId)
deleteSalesTransactionItems(rows, transactionId) ==
  SelectSeq(rows, LAMBDA r : r.transactionId # transactionId)

\* The not-null columns of sales_transaction_items, enforced by the database
\* on an insert that was not validated.
DbAcceptsItem(item) == item.productId # Missing

RECURSIVE PutItemsLoopMovesStock(_, _, _, _)
PutItemsLoopMovesStock(items, i, transactionId, st) ==
  IF i > Len(items) THEN st
  ELSE IF ~DbAcceptsItem(items[i]) THEN [st EXCEPT !.ok = FALSE]
  ELSE PutItemsLoopMovesStock(items, i + 1, transactionId,
         SaleItemStep(st, items[i], <<>>, transactionId))

\* for (const item of items) createSalesTransactionItem({...item, transactionId})
\* on the storage state st: the loop stores items and nothing else.
RECURSIVE PutItemsLoop(_, _, _, _)
PutItemsLoop(items, i, transactionId, st) ==
  IF i > Len(items) THEN st
  ELSE IF ~DbAcceptsItem(items[i]) THEN [st EXCEPT !.ok = FALSE]
  ELSE PutItemsLoop(items, i + 1, transactionId,
         [st EXCEPT !.items = Append(@, SalesTransactionItemRow(transactionId, items[i]))])

\* user.role !== 'admin' && user.stationId !== existingTransaction.stationId
StationDenied(user, stationId) == user.role # "admin" /\ user.stationId # stationId

\* The response of PUT /api/sales/:transactionId, with the items of the
\* request it answers.
PutResponse(status, message, id, items) ==
  [op |-> "putSales", status |-> status, message |-> message, id |-> id,
   nItems |-> Len(items), items |-> items]

DeleteExistingItemsSkipped(rows, transactionId) == rows

\* // Delete existing items
DeleteExistingItems(rows, transactionId) ==
  deleteSalesTransactionItems(rows, transactionId)

PutSalesOf(callers, bodies, lists) ==
  /\ \E user \in callers, id \in 1 .. MaxSales, b \in bodies, items \in lists :
       IF id \notin SaleIds
         THEN /\ resp' = PutResponse(404, "Transaction not found", id, items)
              /\ UNCHANGED tables
       ELSE LET existing == getSalesTransaction(id)
                updated == UpdatedSalesTransaction(existing, b)
                others == salesTransactions \ {existing}
                st == PutItemsLoop(items, 1, id,
                        [items |-> DeleteExistingItems(salesTransactionItems, id),
                         movements |-> stockMovements, tanks |-> tanks, ok |-> TRUE])
            IN IF StationDenied(user, existing.stationId)
                 THEN /\ resp' = PutResponse(403, "Access denied", id, items)
                      /\ UNCHANGED tables
               ELSE IF ~UniqueInvoiceNumber(others, updated.invoiceNumber)
                 THEN /\ resp' = PutResponse(500, "Failed to update sale", id, items)
                      /\ UNCHANGED tables
               ELSE /\ salesTransactions' = others \cup {updated}
                    /\ salesTransactionItems' = st.items
                    /\ stockMovements' = st.movements
                    /\ tanks' = st.tanks
                    /\ resp' = IF st.ok
                                 THEN PutResponse(200, "", id, items)
                                 ELSE PutResponse(500, "Failed to update sale", id, items)
                    /\ UNCHANGED <<customers, suppliers, payments>>
  /\ UNCHANGED <<nextSaleId, nextPaymentId, now, inflight, purchasing, administration>>

\* The balance flow edits headers only; the sale and amounts flows may also
\* set the invoice number.
BalancePutBodies == PutBodiesOf(BalanceHeaders, {})

SalePutBodies == PutBodiesOf(BalanceHeaders, InvoiceNumbers)

AmountPutBodies == PutBodiesOf(AmountHeaders, InvoiceNumbers)

PutSales == PutSalesOf(PutCallers, BalancePutBodies, SaleItemLists)

PutSalesSale == PutSalesOf(PutCallers, SalePutBodies, SaleItemLists)

PutSalesAmounts == PutSalesOf(PutCallers, AmountPutBodies, SaleItemLists)

\* The edit flow: credit sales of one fuel item, edited to lists of fuel and
\* lubricant items and to a list the database refuses, by a cashier of the
\* station.
EditHeaders == {h \in BalanceHeaders : h.paymentMethod = "credit"}

EditPutBodies == PutBodiesOf(EditHeaders, {})

EditCallers == {u \in Users : u.id = "cash1"}

PostSalesEdit == nextSaleId <= MaxEditSales /\ PostSalesOf(EditHeaders, SaleItemLists)

EditItems == {FuelItem, LubeItem}

EditLists == SeqsUpTo(EditItems, MaxItems) \cup {<<LubeItem, InvalidItem>>}

PutSalesEdit == PutSalesOf(EditCallers, EditPutBodies, EditLists)

\* The totals flow: cash and credit sales whose amounts add up (tax 0,
\* outstanding 6) and whose amounts do not (tax 2, outstanding 0), edited to
\* the same headers by an admin.
TotalsHeaders ==
  [ stationId : {"st1"},
    customerId : {"c1"},
    paymentMethod : {"cash", "credit"},
    subtotal : {10},
    taxAmount : {0, 2},
    totalAmount : {10},
    paidAmount : {4},
    outstandingAmount : {0, 6} ]

TotalsPutBodies == PutBodiesOf(TotalsHeaders, {})

TotalsCallers == {u \in Users : u.id = "admin1"}

PostSalesTotals == PostSalesOf(TotalsHeaders, SaleItemLists)

PutSalesTotals == PutSalesOf(TotalsCallers, TotalsPutBodies, SaleItemLists)

\* The price flow: items whose totalPrice is quantity * unitPrice and an item
\* whose totalPrice is not, posted with a credit sale and put back by an
\* admin.
MispricedItem == [productId |-> "p2", tankId |-> "", quantity |-> 6,
                  unitPrice |-> 1, totalPrice |-> 5]

PriceItems == {FuelItem, LubeItem, MispricedItem}

PriceLists == SeqsUpTo(PriceItems, MaxItems)

PostSalesPrices == nextSaleId <= MaxEditSales /\ PostSalesOf(EditHeaders, PriceLists)

PutSalesPrices == PutSalesOf(TotalsCallers, EditPutBodies, PriceLists)

\* --------------------------------------------- DELETE /api/sales/:id
\* requireRole(['admin', 'manager'])
RoleAllowed(user, roles) == user.role \in roles

\* storage.deleteSalesTransactionSecure(id, userStationId, userRole): refuses
\* with 'Access denied' a caller of another station who is not an admin,
\* otherwise deletes the transaction and its items.
DeleteSecureDenied(row, userStationId, userRole) ==
  userRole # "admin" /\ userStationId # row.stationId

\* The response of DELETE /api/sales/:id, with the caller it answers.
DeleteResponse(status, message, id, user) ==
  [op |-> "deleteSales", status |-> status, message |-> message, id |-> id,
   nItems |-> 0, user |-> user]

DeleteErrorStatusAlways500(message) == 500

\* catch: error.message.includes('Access denied') ? 403 : 500
DeleteErrorStatus(message) == IF message = "Access denied" THEN 403 ELSE 500

DeleteSales ==
  /\ \E user \in Users, id \in SaleIds :
       LET row == getSalesTransaction(id)
       IN IF ~RoleAllowed(user, {"admin", "manager"})
            THEN /\ resp' = DeleteResponse(403, "Insufficient permissions", id, user)
                 /\ UNCHANGED tables
          ELSE IF DeleteSecureDenied(row, user.stationId, user.role)
            THEN /\ resp' = DeleteResponse(DeleteErrorStatus("Access denied"),
                                           "Access denied", id, user)
                 /\ UNCHANGED tables
          ELSE /\ salesTransactions' = salesTransactions \ {row}
               /\ salesTransactionItems' =
                    deleteSalesTransactionItems(salesTransactionItems, id)
               /\ resp' = DeleteResponse(200, "", id, user)
               /\ UNCHANGED <<customers, suppliers, tanks, stockMovements, payments>>
  /\ UNCHANGED <<nextSaleId, nextPaymentId, now, inflight, purchasing, administration>>

\* The delete flow: credit sales of both stations, deleted by every caller.
DeleteFlowHeaders ==
  [ stationId : Stations,
    customerId : {"c1"},
    paymentMethod : {"credit"},
    subtotal : {10},
    taxAmount : {0},
    totalAmount : {10},
    paidAmount : {4},
    outstandingAmount : {6} ]

PostSalesDelete == PostSalesOf(DeleteFlowHeaders, SaleItemLists)

\* ----------------------------------------------- POST /api/payments
\* Bodies: "" is an absent customerId or supplierId.
PaymentBodies ==
  { b \in [ customerId : {"c1", ""},
            supplierId : {"s1", ""},
            amount : {20},
            type : {"receivable", "payable"} ] :
      (b.customerId = "") # (b.supplierId = "") }

PaymentCallers == {u \in Users : u.id \in {"cash1", "cash0"}}

\* Bodies that also carry a userId and a stationId of their own.
AttributedPaymentBodies ==
  { b \in [ customerId : {"c1", ""},
            supplierId : {"s1", ""},
            amount : {20},
            type : {"receivable", "payable"},
            userId : {"admin1", "cash1"},
            stationId : {"st1", "st2"} ] :
      (b.customerId = "") # (b.supplierId = "") }

PaymentDataTrustsBody(body, user) ==
  [ customerId |-> body.customerId,
    supplierId |-> body.supplierId,
    amount |-> body.amount,
    type |-> body.type,
    userId |-> body.userId,
    stationId |-> body.stationId ]

PaymentDataSwapsParties(body, user) ==
  [ customerId |-> body.supplierId,
    supplierId |-> body.customerId,
    amount |-> body.amount,
    type |-> body.type,
    userId |-> user.id,
    stationId |-> user.stationId ]

\* paymentData: the allowed fields of the body, attributed to the caller.
PaymentData(body, user) ==
  [ customerId |-> body.customerId,
    supplierId |-> body.supplierId,
    amount |-> body.amount,
    type |-> body.type,
    userId |-> user.id,
    stationId |-> user.stationId ]

\* storage.createPayment: stores the payment; a receivable payment lowers the
\* customer's outstandingAmount by the amount, a payable payment the
\* supplier's.
PaidCustomers(cs, data) ==
  IF data.type = "receivable" /\ data.customerId \in DOMAIN cs
    THEN [cs EXCEPT ![data.customerId] = @ - data.amount]
    ELSE cs

PaidSuppliers(ss, data) ==
  IF data.type = "payable" /\ data.supplierId \in DOMAIN ss
    THEN [ss EXCEPT ![data.supplierId] = @ - data.amount]
    ELSE ss

PaymentRow(id, data) ==
  [ id |-> id,
    customerId |-> data.customerId,
    supplierId |-> data.supplierId,
    amount |-> data.amount,
    type |-> data.type,
    userId |-> data.userId,
    stationId |-> data.stationId ]

\* The response of POST /api/payments, with the request it answers.
PaymentResponse(status, message, id, body, user) ==
  [op |-> "postPayments", status |-> status, message |-> message, id |-> id,
   nItems |-> 0, body |-> body, user |-> user]

PostPaymentsOf(bodies, callers) ==
  /\ nextPaymentId <= MaxPayments
  /\ \E user \in callers, body \in bodies :
       IF user.stationId = ""
         THEN /\ resp' = PaymentResponse(400,
                           "User must be assigned to a station to record payments", 0,
                           body, user)
              /\ UNCHANGED <<tables, nextPaymentId>>
       ELSE LET data == PaymentData(body, user)
            IN /\ payments' = payments \cup {PaymentRow(nextPaymentId, data)}
               /\ nextPaymentId' = nextPaymentId + 1
               /\ customers' = PaidCustomers(customers, data)
               /\ suppliers' = PaidSuppliers(suppliers, data)
               /\ resp' = PaymentResponse(201, "", nextPaymentId, body, user)
               /\ UNCHANGED <<tanks, salesTransactions, salesTransactionItems,
                              stockMovements>>
  /\ UNCHANGED <<nextSaleId, now, inflight, purchasing, administration>>

PostPayments == PostPaymentsOf(PaymentBodies, PaymentCallers)

PostPaymentsAll == PostPaymentsOf(PaymentBodies, Users)

PostPaymentsAttributed == PostPaymentsOf(AttributedPaymentBodies, Users)

\* ------------------------------- DELETE /api/payments/:stationId/:id
\* requireStationAccess: an admin, or a caller of the station of the path.
StationAccess(user, stationId) == user.role = "admin" \/ user.stationId = stationId

\* storage.deletePayment(id, stationId): deletes the payment of that id and
\* station; balances are not touched.
deletePayment(rows, id, stationId) ==
  {r \in rows : ~(r.id = id /\ r.stationId = stationId)}

DeletePayments ==
  /\ \E user \in Users, stationId \in Stations, id \in {r.id : r \in payments} :
       IF ~RoleAllowed(user, {"admin", "manager"})
         THEN /\ resp' = Response("deletePayments", 403, "Insufficient permissions", id, 0)
              /\ UNCHANGED tables
       ELSE IF ~StationAccess(user, stationId)
         THEN /\ resp' = Response("deletePayments", 403, "Access denied", id, 0)
              /\ UNCHANGED tables
       ELSE /\ payments' = deletePayment(payments, id, stationId)
            /\ resp' = Response("deletePayments", 200, "Payment deleted successfully", id, 0)
            /\ UNCHANGED <<customers, suppliers, tanks, salesTransactions,
                           salesTransactionItems, stockMovements>>
  /\ UNCHANGED <<nextSaleId, nextPaymentId, now, inflight, purchasing, administration>>

\* --------------------------------------- POST /api/settings/:stationId
\* Settings rows: the station, the tax switch and the tax rate in hundredths
\* (tax_rate is decimal(5, 2)).
SettingsBodies == [taxEnabled : BOOLEAN, taxRate : {17}]

SettingsRow(stationId, b) ==
  [stationId |-> stationId, taxEnabled |-> b.taxEnabled, taxRate |-> b.taxRate]

\* storage.getSettings(stationId): the rows of the station (none or one).
getSettings(rows, stationId) == {r \in rows : r.stationId = stationId}

\* unique() on settings.station_id
UniqueStation(rows, stationId) == \A r \in rows : r.stationId # stationId

\* The response of the settings and purchase order routes, with the request
\* they answer.
RequestResponse(op, status, message, id, body, user) ==
  [op |-> op, status |-> status, message |-> message, id |-> id, nItems |-> 0,
   body |-> body, user |-> user]

SettingsCallers == {u \in Users : u.id \in {"admin1", "mgr2", "cash1"}}

PostSettings ==
  /\ \E user \in SettingsCallers, stationId \in Stations, b \in SettingsBodies :
       IF ~RoleAllowed(user, {"admin", "manager"})
         THEN /\ resp' = RequestResponse("postSettings", 403, "Insufficient permissions",
                                         stationId, b, user)
              /\ UNCHANGED settings
       ELSE IF ~StationAccess(user, stationId)
         THEN /\ resp' = RequestResponse("postSettings", 403, "Access denied",
                                         stationId, b, user)
              /\ UNCHANGED settings
       ELSE IF ~UniqueStation(settings, stationId)
         THEN /\ resp' = RequestResponse("postSettings", 409,
                            "Settings already exist for this station. Use PUT to update.",
                            stationId, b, user)
              /\ UNCHANGED settings
       ELSE /\ settings' = settings \cup {SettingsRow(stationId, b)}
            /\ resp' = RequestResponse("postSettings", 201, "", stationId, b, user)
  /\ UNCHANGED <<tables, nextSaleId, nextPaymentId, now, inflight, purchaseOrders,
                 purchaseOrderItems, nextOrderId, administration>>

\* ------------------------------------------------- POST /api/accounts
\* Bodies: "" is an absent stationId or code; name, type and normalBalance
\* are present and valid.
AccountBodies == [stationId : {"st1", "st2", ""}, code : {"1001", "1002", ""}]

AccountRow(b) == [stationId |-> b.stationId, code |-> b.code]

\* select ... where stationId = accountData.stationId and code = accountData.code
existingAccount(rows, b) ==
  {r \in rows : r.stationId = b.stationId /\ r.code = b.code}

\* The response of POST /api/accounts, with the body it answers.
AccountResponse(status, message, body) ==
  [op |-> "postAccounts", status |-> status, message |-> message, id |-> 0,
   nItems |-> 0, body |-> body]

\* return res.status(400).json({ error: "Account code already exists for this station" })
DuplicateAccountStatus == 400

PostAccounts ==
  /\ \E b \in AccountBodies :
       IF b.stationId = "" \/ b.code = ""
         THEN /\ resp' = AccountResponse(400, "Missing required fields", b)
              /\ UNCHANGED accounts
       ELSE IF existingAccount(accounts, b) # {}
         THEN /\ resp' = AccountResponse(DuplicateAccountStatus,
                                          "Account code already exists for this station", b)
              /\ UNCHANGED accounts
       ELSE /\ accounts' = accounts \cup {AccountRow(b)}
            /\ resp' = AccountResponse(201, "", b)
  /\ UNCHANGED <<tables, nextSaleId, nextPaymentId, now, inflight, purchasing, users,
                 tokens>>

\* ------------------------------ POST /api/auth/signup and /auth/login
\* Signup bodies: Missing is an absent username; role is one of userRoleEnum.
UserRoles == {"admin", "manager", "cashier"}

SignupBodies == [username : {"alice", "bob", Missing}, password : {"pw"}, role : UserRoles]

\* insertUserSchema.parse: the not-null columns must be present.
ValidUser(body) == body.username # Missing

\* storage.getUserByUsername(username): the rows of that name (none or one).
getUserByUsername(rows, username) == {r \in rows : r.username = username}

\* const isActive = validatedData.role === 'admin'
SignupIsActive(role) == role = "admin"

PostAuthSignup ==
  /\ \E body \in SignupBodies :
       LET Answer(status, message) ==
             [op |-> "signup", status |-> status, message |-> message, id |-> 0,
              nItems |-> 0, body |-> body]
           isActive == SignupIsActive(body.role)
       IN IF ~ValidUser(body)
            THEN /\ resp' = Answer(400, "Invalid user data")
                 /\ UNCHANGED users
          ELSE IF getUserByUsername(users, body.username) # {}
            THEN /\ resp' = Answer(400, "Username already exists")
                 /\ UNCHANGED users
          ELSE /\ users' = users \cup
                    {[username |-> body.username, password |-> hash(body.password),
                      role |-> body.role, isActive |-> isActive,
                      approvedBy |-> IF isActive THEN "signup" ELSE ""]}
               /\ resp' = Answer(201,
                      IF isActive
                        THEN "Admin account created successfully. You can now login."
                        ELSE "Account created successfully. Please wait for admin approval.")
  /\ UNCHANGED <<tables, nextSaleId, nextPaymentId, now, inflight, purchasing, accounts,
                 tokens>>

LoginBodies ==
  [username : {"admin", "alice", "bob"}, password : {"pw", "admin123"}]

PostAuthLogin ==
  /\ \E body \in LoginBodies :
       LET Answer(status, message) ==
             [op |-> "login", status |-> status, message |-> message, id |-> 0,
              nItems |-> 0, body |-> body]
           found == getUserByUsername(users, body.username)
           user == CHOOSE r \in found : TRUE
       IN IF found = {}
            THEN /\ resp' = Answer(401, "Invalid credentials")
                 /\ UNCHANGED tokens
          ELSE IF ~user.isActive /\ user.role # "admin"
            THEN /\ resp' = Answer(401,
                               "Account pending approval. Please contact administrator.")
                 /\ UNCHANGED tokens
          ELSE IF ~compare(body.password, user.password)
            THEN /\ resp' = Answer(401, "Invalid credentials")
                 /\ UNCHANGED tokens
          ELSE /\ tokens' = tokens \cup {user.username}
               /\ resp' = Answer(200, "")
  /\ UNCHANGED <<tables, nextSaleId, nextPaymentId, now, inflight, purchasing, accounts,
                 users>>

\* ---------------------------------------- PUT /api/admin/users/:id
\* The callers hold a token; the body sets isActive.
TokenHolders == {r \in users : r.username \in tokens}

PutAdminUsers ==
  /\ \E caller \in TokenHolders, target \in users, isActive \in BOOLEAN :
       LET Answer(status, message) ==
             [op |-> "putAdminUsers", status |-> status, message |-> message, id |-> 0,
              nItems |-> 0, body |-> [username |-> target.username, isActive |-> isActive],
              user |-> caller.username]
       IN IF ~RoleAllowed(caller, {"admin"})
            THEN /\ resp' = Answer(403, "Insufficient permissions")
                 /\ UNCHANGED users
          ELSE /\ users' = (users \ {target}) \cup
                    {[target EXCEPT !.isActive = isActive,
                                    !.approvedBy = IF isActive THEN caller.username ELSE ""]}
               /\ resp' = Answer(200, "")
  /\ UNCHANGED <<tables, nextSaleId, nextPaymentId, now, inflight, purchasing, accounts,
                 tokens>>

\* ------------------------------------------ POST /api/purchase-orders
\* Quantities count thousandths (decimal(10, 3)), unit prices and the amount
\* columns hundredths (decimal(10, 2)), tax rates hundredths (decimal(5, 2)).
QuantityScale == 1000
RateScale == 100

\* Bodies: the order names its number, supplier and date (Missing: the field
\* is absent); the items carry their totalPrice.
OrderBodies ==
  { b \in [ orderNumber : {"PO-1", "PO-2", Missing},
            supplierId : {"s1"},
            orderDate : {"2024-01-15", Missing} ] :
      b.orderDate = Missing => b.orderNumber = "PO-1" }

PurchaseFuelItem == [productId |-> "p1", tankId |-> "t1", quantity |-> 1024,
                     unitPrice |-> 100, totalPrice |-> 102]

PurchaseLubeItem == [productId |-> "p2", tankId |-> "", quantity |-> 1000,
                     unitPrice |-> 100, totalPrice |-> 100]

PurchaseInvalidItem == [productId |-> Missing, tankId |-> "", quantity |-> 1000,
                        unitPrice |-> 100, totalPrice |-> 100]

OrderItemLists ==
  { <<PurchaseFuelItem>>, <<PurchaseFuelItem, PurchaseLubeItem>>,
    <<PurchaseLubeItem, PurchaseInvalidItem>> }

\* The callers: an admin, a manager, a cashier and a manager of no station.
OrderCallers ==
  {u \in Users : u.id \in {"admin1", "mgr2", "cash1"}}
    \cup {[id |-> "mgr0", role |-> "manager", stationId |-> ""]}

DefaultSettingsTaxed(userStationId) ==
  [stationId |-> userStationId, taxEnabled |-> TRUE, taxRate |-> 17]

\* defaultSettings = { stationId: userStationId, taxEnabled: false, taxRate: '0' }
DefaultSettings(userStationId) ==
  [stationId |-> userStationId, taxEnabled |-> FALSE, taxRate |-> 0]

\* items.map: subtotal += parseFloat(item.quantity) * parseFloat(item.unitPrice),
\* in units of 1 / (QuantityScale * 100).
RECURSIVE OrderSubtotal(_)
OrderSubtotal(items) ==
  IF items = <<>> THEN 0
  ELSE Head(items).quantity * Head(items).unitPrice + OrderSubtotal(Tail(items))

\* currencyConfig.taxEnabled ? parseFloat(currencyConfig.taxRate || '0') : 0
OrderTaxRate(currencyConfig) ==
  IF currencyConfig.taxEnabled THEN currencyConfig.taxRate ELSE 0

\* taxAmount = subtotal * taxRate and totalAmount = subtotal + taxAmount, both
\* in units of 1 / (QuantityScale * 100 * RateScale).
OrderTaxAmount(subtotal, taxRate) == subtotal * taxRate

OrderTotalAmount(subtotal, taxAmount) == subtotal * RateScale + taxAmount

\* A decimal(10, 2) column stores the nearest hundredth of the value it is
\* given; `units` of x make one hundredth.
ToAmountColumn(x, units) == (2 * x + units) \div (2 * units)

\* insertPurchaseOrderSchema.parse(orderData): the not-null columns.
ValidOrder(order) == order.orderNumber # Missing /\ order.supplierId # Missing

\* new Date(order.orderDate).toISOString() throws on an invalid date.
ValidOrderDate(order) == order.orderDate # Missing

\* insertPurchaseOrderItemSchema.parse({...item, orderId}): productId is not
\* null (the bodies carry the other not-null columns).
ValidOrderItem(item) == item.productId # Missing

\* unique() on purchase_orders.order_number
UniqueOrderNumber(rows, orderNumber) == \A r \in rows : r.orderNumber # orderNumber

\* The purchase_orders row of orderData: the amount columns round.
PurchaseOrderRow(id, order, user, subtotal, taxAmount, totalAmount) ==
  [ id |-> id,
    orderNumber |-> order.orderNumber,
    stationId |-> user.stationId,
    supplierId |-> order.supplierId,
    userId |-> user.id,
    subtotal |-> ToAmountColumn(subtotal, QuantityScale),
    taxAmount |-> ToAmountColumn(taxAmount, QuantityScale * RateScale),
    totalAmount |-> ToAmountColumn(totalAmount, QuantityScale * RateScale) ]

PurchaseOrderItemRow(orderId, item) ==
  [ orderId |-> orderId,
    productId |-> item.productId,
    tankId |-> item.tankId,
    quantity |-> item.quantity,
    unitPrice |-> item.unitPrice,
    totalPrice |-> item.totalPrice ]

PurchaseItemStepReceivesStock(st, item, orderId) ==
  LET withItem == [st EXCEPT !.items = Append(@, PurchaseOrderItemRow(orderId, item))]
      received == [tankId |-> item.tankId, movementType |-> "in",
                   quantity |-> item.quantity, referenceType |-> "purchase",
                   referenceId |-> orderId]
  IN IF ItemHasTank(item)
       THEN [withItem EXCEPT
               !.movements = Append(@, StockMovementRow(currentStock(st.tanks, item.tankId),
                                                        received)),
               !.tanks = setCurrentStock(@, item.tankId,
                           NewStock(currentStock(st.tanks, item.tankId), "in",
                                    item.quantity))]
       ELSE withItem

\* One turn of the item loop on the storage state st: the item is stored.
PurchaseItemStep(st, item, orderId) ==
  [st EXCEPT !.items = Append(@, PurchaseOrderItemRow(orderId, item))]

\* for (const item of processedItems): stops at the first item that fails to
\* parse.
RECURSIVE PurchaseItemsLoop(_, _, _, _)
PurchaseItemsLoop(items, i, orderId, st) ==
  IF i > Len(items) THEN st
  ELSE IF ~ValidOrderItem(items[i]) THEN [st EXCEPT !.ok = FALSE]
  ELSE PurchaseItemsLoop(items, i + 1, orderId, PurchaseItemStep(st, items[i], orderId))

PostPurchaseOrders ==
  /\ nextOrderId <= MaxOrders
  /\ \E user \in OrderCallers, order \in OrderBodies, items \in OrderItemLists :
       LET body == [order |-> order, items |-> items]
           Answer(status, message, id) ==
             RequestResponse("postPurchaseOrders", status, message, id, body, user)
       IN IF ~RoleAllowed(user, {"admin", "manager"})
            THEN /\ resp' = Answer(403, "Insufficient permissions", 0)
                 /\ UNCHANGED <<stockMovements, tanks, purchasing, administration>>
          ELSE IF user.stationId = ""
            THEN /\ resp' = Answer(400, "User station not found.", 0)
                 /\ UNCHANGED <<stockMovements, tanks, purchasing, administration>>
          ELSE
            LET existing == getSettings(settings, user.stationId)
                currencyConfig == IF existing = {} THEN DefaultSettings(user.stationId)
                                  ELSE CHOOSE r \in existing : TRUE
                subtotal == OrderSubtotal(items)
                taxAmount == OrderTaxAmount(subtotal, OrderTaxRate(currencyConfig))
                totalAmount == OrderTotalAmount(subtotal, taxAmount)
                id == nextOrderId
                st == PurchaseItemsLoop(items, 1, id,
                        [items |-> purchaseOrderItems, movements |-> stockMovements,
                         tanks |-> tanks, ok |-> TRUE])
            IN /\ settings' = IF existing = {} THEN settings \cup {currencyConfig}
                               ELSE settings
               /\ IF ~ValidOrderDate(order)
                    THEN /\ resp' = Answer(400, "Invalid purchase order data", 0)
                         /\ UNCHANGED <<stockMovements, tanks, purchaseOrders,
                                        purchaseOrderItems, nextOrderId>>
                  ELSE IF ~ValidOrder(order)
                    THEN /\ resp' = Answer(400, "Validation failed", 0)
                         /\ UNCHANGED <<stockMovements, tanks, purchaseOrders,
                                        purchaseOrderItems, nextOrderId>>
                  ELSE IF ~UniqueOrderNumber(purchaseOrders, order.orderNumber)
                    THEN /\ resp' = Answer(400, "Invalid purchase order data", 0)
                         /\ UNCHANGED <<stockMovements, tanks, purchaseOrders,
                                        purchaseOrderItems, nextOrderId>>
                  ELSE /\ purchaseOrders' = purchaseOrders \cup
                            {PurchaseOrderRow(id, order, user, subtotal, taxAmount,
                                              totalAmount)}
                       /\ nextOrderId' = nextOrderId + 1
                       /\ purchaseOrderItems' = st.items
                       /\ stockMovements' = st.movements
                       /\ tanks' = st.tanks
                       /\ resp' = IF st.ok THEN Answer(201, "", id)
                                  ELSE Answer(400, "Validation failed", id)
  /\ UNCHANGED <<customers, suppliers, salesTransactions, salesTransactionItems, payments,
                 nextSaleId, nextPaymentId, now, inflight, administration>>

\* ------------------------------------------- POST /api/journal-entries
\* Journal lines: an account ("" when none is selected), a debit and a
\* credit in hundredths.
JournalAmounts == {0, 2, 3}

JournalLineKinds == [accountId : {"a1", ""}, debit : JournalAmounts, credit : JournalAmounts]

JournalLineLists == SeqsUpTo(JournalLineKinds, MaxItems)

\* journalEntrySchema: lines: z.array(...).min(2)
FormLineLists == {lines \in JournalLineLists : Len(lines) >= 2}

JournalCallers == {u \in Users : u.id = "cash1"}

\* data.lines.reduce((sum, line) => sum + parseFloat(line[field] || '0'), 0)
RECURSIVE reduceLines(_, _)
reduceLines(lines, field) ==
  IF lines = <<>> THEN 0 ELSE Head(lines)[field] + reduceLines(Tail(lines), field)

Abs(x) == IF x < 0 THEN -x ELSE x

\* Math.abs(totalDebits - totalCredits) > 0.01, in hundredths
JournalTolerance == 1

DebitsDifferFromCredits(lines) ==
  Abs(reduceLines(lines, "debit") - reduceLines(lines, "credit")) > JournalTolerance

\* (debit > 0 && credit > 0) || (debit === 0 && credit === 0)
invalidLines(lines) ==
  SelectSeq(lines, LAMBDA line : \/ (line.debit > 0 /\ line.credit > 0)
                                 \/ (line.debit = 0 /\ line.credit = 0))

\* !line.accountId
linesWithoutAccounts(lines) == SelectSeq(lines, LAMBDA line : line.accountId = "")

\* The response of the journal route, or the toast of the form, with the
\* lines submitted and where they came from (the form or a request sent to
\* the route directly).
JournalResponse(op, status, message, id, lines, via) ==
  [op |-> op, status |-> status, message |-> message, id |-> id, nItems |-> Len(lines),
   lines |-> lines, via |-> via]

\* The route: answers 201 with the entry built from the body; it validates
\* and stores nothing.
PostJournalEntriesOf(lines, via) ==
  /\ resp' = JournalResponse("postJournalEntries", 201, "", now, lines, via)
  /\ UNCHANGED <<tables, nextSaleId, nextPaymentId, now, inflight, purchasing, administration>>

PostJournalEntries ==
  \E user \in JournalCallers, lines \in JournalLineLists :
    PostJournalEntriesOf(lines, "request")

Toast(description, lines) ==
  /\ resp' = JournalResponse("onJournalSubmit", 0, description, 0, lines, "form")
  /\ UNCHANGED <<tables, nextSaleId, nextPaymentId, now, inflight, purchasing, administration>>

\* The form of the general ledger page: three checks, then the request.
onJournalSubmit ==
  \E user \in JournalCallers, lines \in FormLineLists :
    IF DebitsDifferFromCredits(lines)
      THEN Toast("Total debits must equal total credits", lines)
    ELSE IF invalidLines(lines) # <<>>
      THEN Toast("Each line must have either a debit or credit amount, but not both", lines)
    ELSE IF linesWithoutAccounts(lines) # <<>>
      THEN Toast("All journal lines must have an account selected", lines)
    ELSE PostJournalEntriesOf(lines, "form")

\* ------------------------------- POST /api/sales, one await at a time
\* Requests run concurrently: each await of the handler is a step, and the
\* steps of the requests in flight interleave.  A request in flight carries
\* its body, the id of its transaction, the index of the item it is at and
\* the stock its createStockMovement call has read.
ConcHeaders == {h \in BalanceHeaders : h.paymentMethod = "credit"}

SmallFuelItem == [productId |-> "p1", tankId |-> "t1", quantity |-> 3,
                  unitPrice |-> 1, totalPrice |-> 3]

ConcItemLists == {<<FuelItem>>, <<SmallFuelItem>>, <<LubeItem>>}

RequestIds == 1 .. MaxInflight

Request(rid, t, items, id) ==
  [rid |-> rid, t |-> t, items |-> items, id |-> id, i |-> 1, pc |-> "item",
   previousStock |-> 0]

\* The header is validated and inserted.
ConcBegin ==
  /\ nextSaleId <= MaxSales
  /\ \E rid \in RequestIds, t \in ConcHeaders, items \in ConcItemLists :
       /\ rid \notin {r.rid : r \in inflight}
       /\ \A other \in RequestIds : other < rid => other \in {r.rid : r \in inflight}
       /\ IF ~ValidTransaction(t)
            THEN /\ resp' = Response("postSales", 400, "Validation failed", 0, Len(items))
                 /\ UNCHANGED <<salesTransactions, nextSaleId, inflight>>
          ELSE IF ~UniqueInvoiceNumber(salesTransactions, InvoiceNumber(now))
            THEN /\ resp' = Response("postSales", 400, "Invalid sales data", 0, Len(items))
                 /\ UNCHANGED <<salesTransactions, nextSaleId, inflight>>
          ELSE /\ salesTransactions' = salesTransactions \cup
                    {SalesTransactionRow(nextSaleId, InvoiceNumber(now), t)}
               /\ nextSaleId' = nextSaleId + 1
               /\ inflight' = inflight \cup {Request(rid, t, items, nextSaleId)}
               /\ resp' = NoResp
  /\ UNCHANGED <<customers, suppliers, tanks, salesTransactionItems, stockMovements,
                 payments, nextPaymentId, now, purchasing, administration>>

\* The next item is validated and inserted.
ConcItem ==
  /\ \E r \in inflight :
       /\ r.pc = "item"
       /\ r.i <= Len(r.items)
       /\ LET item == r.items[r.i]
          IN IF ~ValidItem(item)
               THEN /\ inflight' = inflight \ {r}
                    /\ resp' = Response("postSales", 400, "Validation failed", r.id,
                                        Len(r.items))
                    /\ UNCHANGED salesTransactionItems
             ELSE /\ salesTransactionItems' =
                       Append(salesTransactionItems, SalesTransactionItemRow(r.id, item))
                  /\ inflight' = (inflight \ {r}) \cup
                       {IF ItemHasTank(item) THEN [r EXCEPT !.pc = "readStock"]
                        ELSE [r EXCEPT !.i = @ + 1]}
                  /\ resp' = NoResp
  /\ UNCHANGED <<customers, suppliers, tanks, salesTransactions, stockMovements,
                 payments, nextSaleId, nextPaymentId, now, purchasing, administration>>

\* storage.createStockMovement reads the tank's currentStock ...
ConcReadStock ==
  /\ \E r \in inflight :
       /\ r.pc = "readStock"
       /\ inflight' = (inflight \ {r}) \cup
            {[r EXCEPT !.pc = "writeStock",
                       !.previousStock = tanks[r.items[r.i].tankId]]}
  /\ resp' = NoResp
  /\ UNCHANGED <<tables, nextSaleId, nextPaymentId, now, purchasing, administration>>

\* ... and then stores the movement and writes newStock to the tank.
ConcWriteStock ==
  /\ \E r \in inflight :
       /\ r.pc = "writeStock"
       /\ LET item == r.items[r.i]
              m == SaleStockMovement(item, r.t, r.id)
          IN /\ stockMovements' = Append(stockMovements,
                                         StockMovementRow(r.previousStock, m))
             /\ tanks' = [tanks EXCEPT ![item.tankId] =
                            NewStock(r.previousStock, m.movementType, m.quantity)]
       /\ inflight' = (inflight \ {r}) \cup {[r EXCEPT !.pc = "item", !.i = @ + 1]}
  /\ resp' = NoResp
  /\ UNCHANGED <<customers, suppliers, salesTransactions, salesTransactionItems,
                 payments, nextSaleId, nextPaymentId, now, purchasing, administration>>

\* After the last item the customer's balance is raised and 201 is sent.
ConcFinish ==
  /\ \E r \in inflight :
       /\ r.pc = "item"
       /\ r.i > Len(r.items)
       /\ customers' = IF IsCreditSale(r.t)
                         THEN updateCustomerOutstanding(customers, r.t.customerId,
                                                        CreditAmount(r.t))
                         ELSE customers
       /\ inflight' = inflight \ {r}
       /\ resp' = Response("postSales", 201, "", r.id, Len(r.items))
  /\ UNCHANGED <<suppliers, tanks, salesTransactions, salesTransactionItems,
                 stockMovements, payments, nextSaleId, nextPaymentId, now, purchasing, administration>>

\* ------------------- POST /api/purchase-orders, one await at a time
\* Requests run concurrently.  A request in flight carries its caller, its
\* body and the settings it works with.  The steps are the read of the
\* settings, the insert of the default settings, and the rest of the handler
\* (the insert of the order and of its items), which touches no settings.
ConcOrderBodies == {b \in OrderBodies : ValidOrder(b) /\ ValidOrderDate(b)}

ConcOrderItemLists == {<<PurchaseFuelItem>>}

ConcOrderCallers == {u \in Users : u.id \in {"admin1", "mgr2"}}

OrderRequests == {r \in inflight : r.pc \in {"createSettings", "createOrder"}}

OrderRequest(rid, user, order, items, existing) ==
  [ rid |-> rid, user |-> user, order |-> order, items |-> items,
    pc |-> IF existing = {} THEN "createSettings" ELSE "createOrder",
    currencyConfig |-> IF existing = {} THEN DefaultSettings(user.stationId)
                       ELSE CHOOSE r \in existing : TRUE ]

\* let currencyConfig = await storage.getSettings(userStationId)
ConcOrderBegin ==
  /\ nextOrderId + Cardinality(OrderRequests) <= MaxOrders
  /\ \E rid \in RequestIds, user \in ConcOrderCallers, order \in ConcOrderBodies,
        items \in ConcOrderItemLists :
       /\ rid \notin {r.rid : r \in inflight}
       /\ \A other \in RequestIds : other < rid => other \in {r.rid : r \in inflight}
       /\ RoleAllowed(user, {"admin", "manager"})
       /\ user.stationId # ""
       /\ inflight' = inflight \cup
            {OrderRequest(rid, user, order, items, getSettings(settings, user.stationId))}
  /\ resp' = NoResp
  /\ UNCHANGED <<tables, nextSaleId, nextPaymentId, now, purchasing, administration>>

\* currencyConfig = await storage.createSettings(defaultSettings): the unique
\* violation is thrown to the catch of the handler.
ConcOrderCreateSettings ==
  /\ \E r \in inflight :
       /\ r.pc = "createSettings"
       /\ IF ~UniqueStation(settings, r.user.stationId)
            THEN /\ resp' = RequestResponse("postPurchaseOrders", 400,
                               "Invalid purchase order data", 0,
                               [order |-> r.order, items |-> r.items], r.user)
                 /\ inflight' = inflight \ {r}
                 /\ UNCHANGED settings
          ELSE /\ settings' = settings \cup {r.currencyConfig}
               /\ inflight' = (inflight \ {r}) \cup {[r EXCEPT !.pc = "createOrder"]}
               /\ resp' = NoResp
  /\ UNCHANGED <<tables, nextSaleId, nextPaymentId, now, purchaseOrders,
                 purchaseOrderItems, nextOrderId, administration>>

\* The totals, the insert of the order and of its items, and the answer.
ConcOrderCreate ==
  /\ \E r \in inflight :
       /\ r.pc = "createOrder"
       /\ LET subtotal == OrderSubtotal(r.items)
              taxAmount == OrderTaxAmount(subtotal, OrderTaxRate(r.currencyConfig))
              totalAmount == OrderTotalAmount(subtotal, taxAmount)
              id == nextOrderId
              st == PurchaseItemsLoop(r.items, 1, id,
                      [items |-> purchaseOrderItems, movements |-> stockMovements,
                       tanks |-> tanks, ok |-> TRUE])
              Answer(status, message, oid) ==
                RequestResponse("postPurchaseOrders", status, message, oid,
                                [order |-> r.order, items |-> r.items], r.user)
          IN IF ~UniqueOrderNumber(purchaseOrders, r.order.orderNumber)
               THEN /\ resp' = Answer(400, "Invalid purchase order data", 0)
                    /\ UNCHANGED <<purchaseOrders, purchaseOrderItems, nextOrderId>>
             ELSE /\ purchaseOrders' = purchaseOrders \cup
                       {PurchaseOrderRow(id, r.order, r.user, subtotal, taxAmount,
                                         totalAmount)}
                  /\ nextOrderId' = nextOrderId + 1
                  /\ purchaseOrderItems' = st.items
                  /\ resp' = IF st.ok THEN Answer(201, "", id)
                             ELSE Answer(400, "Validation failed", id)
       /\ inflight' = inflight \ {r}
  /\ UNCHANGED <<tables, nextSaleId, nextPaymentId, now, settings, administration>>

\* ---- DELETE /api/customers/:id and /api/suppliers/:id, one await at a time
\* A delete request in flight has read a record without an outstanding amount
\* and carries its id.
PartyRequest(rid, pc, id) == [rid |-> rid, pc |-> pc, id |-> id]

\* storage.deleteCustomer(id), storage.deleteSupplier(id)
deleteParty(rows, id) == [p \in DOMAIN rows \ {id} |-> rows[p]]

\* if (parseFloat(customer.outstandingAmount || '0') > 0) return 400
OutstandingAllowsDelete(outstandingAmount) == ~(outstandingAmount > 0)

\* const customer = await storage.getCustomer(id), and the two checks.
DeleteCustomerBegin ==
  /\ \E rid \in RequestIds, id \in Customers :
       /\ rid \notin {r.rid : r \in inflight}
       /\ \A other \in RequestIds : other < rid => other \in {r.rid : r \in inflight}
       /\ IF id \notin DOMAIN customers
            THEN /\ resp' = Response("deleteCustomers", 404, "Customer not found", id, 0)
                 /\ UNCHANGED inflight
          ELSE IF ~OutstandingAllowsDelete(customers[id])
            THEN /\ resp' = Response("deleteCustomers", 400,
                                      "Cannot delete customer with outstanding amount", id, 0)
                 /\ UNCHANGED inflight
          ELSE /\ inflight' = inflight \cup {PartyRequest(rid, "deleteCustomer", id)}
               /\ resp' = NoResp
  /\ UNCHANGED <<tables, nextSaleId, nextPaymentId, now, purchasing, administration>>

\* await storage.deleteCustomer(id)
DeleteCustomerCommit ==
  /\ \E r \in inflight :
       /\ r.pc = "deleteCustomer"
       /\ customers' = deleteParty(customers, r.id)
       /\ inflight' = inflight \ {r}
       /\ resp' = Response("deleteCustomers", 200, "Customer deleted successfully", r.id, 0)
  /\ UNCHANGED <<suppliers, tanks, salesTransactions, salesTransactionItems,
                 stockMovements, payments, nextSaleId, nextPaymentId, now, purchasing,
                 administration>>

\* const supplier = await storage.getSupplier(id), and the two checks.
DeleteSupplierBegin ==
  /\ \E rid \in RequestIds, id \in Suppliers :
       /\ rid \notin {r.rid : r \in inflight}
       /\ \A other \in RequestIds : other < rid => other \in {r.rid : r \in inflight}
       /\ IF id \notin DOMAIN suppliers
            THEN /\ resp' = Response("deleteSuppliers", 404, "Supplier not found", id, 0)
                 /\ UNCHANGED inflight
          ELSE IF ~OutstandingAllowsDelete(suppliers[id])
            THEN /\ resp' = Response("deleteSuppliers", 400,
                                      "Cannot delete supplier with outstanding amount", id, 0)
                 /\ UNCHANGED inflight
          ELSE /\ inflight' = inflight \cup {PartyRequest(rid, "deleteSupplier", id)}
               /\ resp' = NoResp
  /\ UNCHANGED <<tables, nextSaleId, nextPaymentId, now, purchasing, administration>>

\* await storage.deleteSupplier(id)
DeleteSupplierCommit ==
  /\ \E r \in inflight :
       /\ r.pc = "deleteSupplier"
       /\ suppliers' = deleteParty(suppliers, r.id)
       /\ inflight' = inflight \ {r}
       /\ resp' = Response("deleteSuppliers", 200, "Supplier deleted successfully", r.id, 0)
  /\ UNCHANGED <<customers, tanks, salesTransactions, salesTransactionItems,
                 stockMovements, payments, nextSaleId, nextPaymentId, now, purchasing,
                 administration>>

\* ------------------ POST /api/stock-movements, one await at a time
\* Bodies: insertStockMovementSchema keeps every column, so a body carries a
\* previousStock and a newStock of its own; Missing is an absent stationId.
StockMovementBodies ==
  [ tankId : Tanks,
    stationId : {"st1", Missing},
    movementType : {"in", "out"},
    quantity : {3},
    previousStock : {0},
    newStock : {0, 10},
    referenceType : {"adjustment"},
    referenceId : {0} ]

\* insertStockMovementSchema.parse: the not-null columns must be present.
ValidStockMovement(body) == body.stationId # Missing

\* The movements that were not created by a sale.
PostedMovements == SelectSeq(stockMovements, LAMBDA m : m.referenceType # "sale")

MovementRequest(rid, body) ==
  [rid |-> rid, pc |-> "readMovement", m |-> body, previousStock |-> 0]

\* The body is validated.
MovementBegin ==
  /\ \E rid \in RequestIds, body \in StockMovementBodies :
       /\ rid \notin {r.rid : r \in inflight}
       /\ \A other \in RequestIds : other < rid => other \in {r.rid : r \in inflight}
       /\ Len(PostedMovements)
            + Cardinality({r \in inflight : r.pc \in {"readMovement", "writeMovement"}})
            < MaxMovements
       /\ IF ~ValidStockMovement(body)
            THEN /\ resp' = Response("postStockMovements", 400,
                                      "Invalid stock movement data", 0, 0)
                 /\ UNCHANGED inflight
          ELSE /\ inflight' = inflight \cup {MovementRequest(rid, body)}
               /\ resp' = NoResp
  /\ UNCHANGED <<tables, nextSaleId, nextPaymentId, now, purchasing, administration>>

\* storage.createStockMovement reads the tank's currentStock ...
MovementReadStock ==
  /\ \E r \in inflight :
       /\ r.pc = "readMovement"
       /\ inflight' = (inflight \ {r}) \cup
            {[r EXCEPT !.pc = "writeMovement",
                       !.previousStock = currentStock(tanks, r.m.tankId)]}
  /\ resp' = NoResp
  /\ UNCHANGED <<tables, nextSaleId, nextPaymentId, now, purchasing, administration>>

\* ... and then stores the movement and writes newStock to the tank; the
\* route answers 201.
MovementWriteStock ==
  /\ \E r \in inflight :
       /\ r.pc = "writeMovement"
       /\ stockMovements' = Append(stockMovements, StockMovementRow(r.previousStock, r.m))
       /\ tanks' = setCurrentStock(tanks, r.m.tankId,
                      NewStock(r.previousStock, r.m.movementType, r.m.quantity))
       /\ inflight' = inflight \ {r}
       /\ resp' = Response("postStockMovements", 201, "", 0, 0)
  /\ UNCHANGED <<customers, suppliers, salesTransactions, salesTransactionItems,
                 payments, nextSaleId, nextPaymentId, now, purchasing, administration>>

Next ==
  \/ Tick
  \/ PostSales
  \/ PutSales
  \/ DeleteSales
  \/ PostPayments
  \/ DeletePayments

Spec == Init /\ [][Next]_vars

NextSale == Tick \/ PostSalesSale \/ PutSalesSale

SpecSale == Init /\ [][NextSale]_vars

NextAmounts == Tick \/ PostSalesAmounts \/ PutSalesAmounts

SpecAmounts == Init /\ [][NextAmounts]_vars

NextPayments == Tick \/ PostSales \/ PostPaymentsAll \/ DeletePayments

SpecPayments == Init /\ [][NextPayments]_vars

NextItems == Tick \/ PostSalesItems

SpecItems == Init /\ [][NextItems]_vars

NextMethods == Tick \/ PostSalesMethods

SpecMethods == Init /\ [][NextMethods]_vars

NextEdit == Tick \/ PostSalesEdit \/ PutSalesEdit

SpecEdit == Init /\ [][NextEdit]_vars

NextDelete == Tick \/ PostSalesDelete \/ DeleteSales

SpecDelete == Init /\ [][NextDelete]_vars

NextOrders == PostSettings \/ PostPurchaseOrders

SpecOrders == Init /\ [][NextOrders]_vars

NextJournal == Tick \/ PostJournalEntries \/ onJournalSubmit

SpecJournal == Init /\ [][NextJournal]_vars

NextTank == Tick \/ PostSalesTank

SpecTank == Init /\ [][NextTank]_vars

NextConc ==
  \/ Tick
  \/ ConcBegin
  \/ ConcItem
  \/ ConcReadStock
  \/ ConcWriteStock
  \/ ConcFinish

SpecConc == Init /\ [][NextConc]_vars

NextTotals == Tick \/ PostSalesTotals \/ PutSalesTotals

SpecTotals == Init /\ [][NextTotals]_vars

NextPrices == Tick \/ PostSalesPrices \/ PutSalesPrices

SpecPrices == Init /\ [][NextPrices]_vars

NextAccounts == PostSettings \/ PostAccounts

SpecAccounts == Init /\ [][NextAccounts]_vars

NextFailures == Tick \/ PostSalesFailures

SpecFailures == Init /\ [][NextFailures]_vars

NextConcOrders == ConcOrderBegin \/ ConcOrderCreateSettings \/ ConcOrderCreate

SpecConcOrders == Init /\ [][NextConcOrders]_vars

NextParties ==
  \/ Tick
  \/ ConcBegin
  \/ ConcItem
  \/ ConcReadStock
  \/ ConcWriteStock
  \/ ConcFinish
  \/ DeleteCustomerBegin
  \/ DeleteCustomerCommit
  \/ DeleteSupplierBegin
  \/ DeleteSupplierCommit

SpecParties == Init /\ [][NextParties]_vars

NextAuth == PostAuthSignup \/ PostAuthLogin \/ PutAdminUsers

SpecAuth == Init /\ [][NextAuth]_vars

NextAttribution == Tick \/ PostPaymentsAttributed \/ DeletePayments

SpecAttribution == Init /\ [][NextAttribution]_vars

NextStock ==
  \/ ConcBegin
  \/ ConcItem
  \/ ConcReadStock
  \/ ConcWriteStock
  \/ ConcFinish
  \/ MovementBegin
  \/ MovementReadStock
  \/ MovementWriteStock

SpecStock == Init /\ [][NextStock]_vars

\* ================================================================ claims
NewSaleRow == CHOOSE r \in salesTransactions' : r.id = resp'.id

SalePosted == resp'.op = "postSales" /\ resp'.status = 201

\* C1: a successful POST /sales whose payment method is "credit" and that
\* names a customer raises that customer's outstandingAmount by exactly the
\* transaction's outstandingAmount, once.
C1_CreditSaleRaisesOutstanding ==
  [][ \A c \in Customers :
        (SalePosted /\ NewSaleRow.paymentMethod = "credit" /\ NewSaleRow.customerId = c)
          => customers'[c] = customers[c] + NewSaleRow.outstandingAmount ]_vars

C1_Witness ==
  /\ resp.op = "postSales" /\ resp.status = 201
  /\ \E r \in salesTransactions :
       /\ r.id = resp.id /\ r.paymentMethod = "credit" /\ r.customerId = "c1"
       /\ r.outstandingAmount > 0
       /\ customers["c1"] = InitialCustomerOutstanding["c1"] + r.outstandingAmount

\* The rows a step appended to a table kept in insertion order.
Appended(before, after) == SubSeq(after, Len(before) + 1, Len(after))

NewItems == Appended(salesTransactionItems, salesTransactionItems')

NewMovements == Appended(stockMovements, stockMovements')

NewFuelItems == SelectSeq(NewItems, ItemHasTank)

\* One "out" movement per item with a tank, in item order, with the item's
\* quantity, the transaction's id and previousStock - quantity = newStock.
OneMovementPerFuelItem ==
  /\ Len(NewMovements) = Len(NewFuelItems)
  /\ \A k \in 1 .. Len(NewMovements) :
       LET m == NewMovements[k]
           item == NewFuelItems[k]
       IN /\ m.tankId = item.tankId
          /\ m.movementType = "out"
          /\ m.quantity = item.quantity
          /\ m.referenceId = resp'.id
          /\ m.previousStock - m.quantity = m.newStock

LastMovementOf(tankId) ==
  LET ks == {k \in 1 .. Len(NewMovements) : NewMovements[k].tankId = tankId}
  IN NewMovements[CHOOSE k \in ks : \A j \in ks : j <= k]

RECURSIVE SumSeq(_, _)
SumSeq(rows, field) ==
  IF rows = <<>> THEN 0 ELSE Head(rows)[field] + SumSeq(Tail(rows), field)

\* The quantity the "out" movements have taken from a tank.
SoldFrom(tankId) ==
  SumSeq(SelectSeq(stockMovements,
                   LAMBDA m : m.tankId = tankId /\ m.movementType = "out"), "quantity")

C3_NoOversell == \A t \in Tanks : SoldFrom(t) <= InitialStock[t]

\* With no stock movement half done, the tank holds what the recorded
\* movements left.
C3_NoLostUpdate ==
  (\A r \in inflight : r.pc # "writeStock")
    => \A t \in Tanks : tanks[t] = InitialStock[t] - SoldFrom(t)

\* C3: under any interleaving of sale requests the quantity sold from a tank
\* never exceeds the stock that was available (two sales of 6 from a stock of
\* 10 do not both succeed), and the tank's currentStock never reflects only
\* one of two committed sales.
C3_NoOversellNoLostUpdate == C3_NoOversell /\ C3_NoLostUpdate

\* C4: a POST /sales that fails validation (header or any item) persists
\* nothing: no header, item, stock movement or balance change.
C4_ValidationAbortsWhole ==
  [][ (resp'.op = "postSales" /\ resp'.status = 400
         /\ resp'.message = "Validation failed")
        => UNCHANGED tables ]_vars

\* C5: a POST /sales with an empty items list is rejected with 400 and
\* persists no transaction.
C5_EmptyItemsRejected ==
  [][ (resp'.op = "postSales" /\ resp'.nItems = 0)
        => (resp'.status = 400 /\ salesTransactions' = salesTransactions) ]_vars

\* C6: no sales transaction is persisted with paidAmount > totalAmount.
C6_PaidWithinTotal ==
  \A r \in salesTransactions : r.paidAmount <= r.totalAmount

\* C7: a "receivable" payment lowers its customer's outstandingAmount by
\* exactly the amount, a "payable" payment its supplier's; no other customer
\* or supplier balance changes.
C7_PaymentLowersOutstanding ==
  [][ (resp'.op = "postPayments" /\ resp'.status = 201) =>
        LET body == resp'.body
        IN /\ customers' = [c \in Customers |->
                              IF body.type = "receivable" /\ body.customerId = c
                                THEN customers[c] - body.amount ELSE customers[c]]
           /\ suppliers' = [s \in Suppliers |->
                              IF body.type = "payable" /\ body.supplierId = s
                                THEN suppliers[s] - body.amount ELSE suppliers[s]] ]_vars

C7_Witness ==
  /\ resp.op = "postPayments" /\ resp.status = 201
  /\ resp.body.type = "receivable" /\ resp.body.customerId = "c1"
  /\ \E p \in payments : p.id = resp.id /\ p.customerId = "c1"
  /\ customers["c1"] = InitialCustomerOutstanding["c1"] - resp.body.amount
  /\ suppliers = InitialSupplierOutstanding

RECURSIVE SumOf(_, _)
SumOf(rows, field) ==
  IF rows = {} THEN 0
  ELSE LET r == CHOOSE x \in rows : TRUE
       IN r[field] + SumOf(rows \ {r}, field)

CreditSalesOf(c) ==
  {r \in salesTransactions : r.paymentMethod = "credit" /\ r.customerId = c}

ReceivablePaymentsOf(c) ==
  {p \in payments : p.type = "receivable" /\ p.customerId = c}

PayablePaymentsOf(s) ==
  {p \in payments : p.type = "payable" /\ p.supplierId = s}

\* C8: each customer's outstandingAmount is its initial balance plus the
\* outstanding amounts of its existing credit sales minus its existing
\* receivable payments, and each supplier's its initial balance minus its
\* existing payable payments.
C8_BalanceMatchesHistory ==
  /\ \A c \in Customers :
       customers[c] = InitialCustomerOutstanding[c]
                        + SumOf(CreditSalesOf(c), "outstandingAmount")
                        - SumOf(ReceivablePaymentsOf(c), "amount")
  /\ \A s \in Suppliers :
       suppliers[s] = InitialSupplierOutstanding[s]
                        - SumOf(PayablePaymentsOf(s), "amount")

\* C9: no customer's and no supplier's outstandingAmount is ever negative.
C9_OutstandingNeverNegative ==
  /\ \A c \in Customers : customers[c] >= 0
  /\ \A s \in Suppliers : suppliers[s] >= 0

\* C10: no two persisted sales transactions share an invoice number.
C10_InvoiceNumbersUnique ==
  \A r1, r2 \in salesTransactions :
    r1.id # r2.id => r1.invoiceNumber # r2.invoiceNumber

\* A POST /sales whose generated number was taken was turned down.
C10_Witness ==
  /\ resp.op = "postSales" /\ resp.status = 400
  /\ resp.message = "Invalid sales data"
  /\ \E r \in salesTransactions : r.invoiceNumber = InvoiceNumber(now)

\* The rows of a table kept in insertion order that name no tank.
TanklessRows(rows) == SelectSeq(rows, LAMBDA r : r.tankId \in NoTankIds)

\* C11: a sale item that names no tank (tankId absent, null or the string
\* 'null') produces no stock movement and leaves every tank's currentStock
\* unchanged: a POST /sales creates as many movements as it stored items that
\* name a tank, each of them of a tank some stored item names, and a
\* request that stored only items without a tank creates no movement and
\* changes no tank's currentStock.
C11_NoTankNoMovement ==
  [][ resp'.op = "postSales" =>
        /\ Len(NewMovements) = Len(NewItems) - Len(TanklessRows(NewItems))
        /\ \A k \in 1 .. Len(NewMovements) : NewMovements[k].tankId \notin NoTankIds
        /\ Len(TanklessRows(NewItems)) = Len(NewItems)
             => (stockMovements' = stockMovements /\ tanks' = tanks) ]_vars

\* A sale of an item with tankId 'null' and an item with no tankId was
\* recorded and moved no stock.
C11_Witness ==
  /\ resp.op = "postSales" /\ resp.status = 201 /\ resp.nItems = 2
  /\ \E i, j \in 1 .. Len(salesTransactionItems) :
       /\ salesTransactionItems[i].transactionId = resp.id
       /\ salesTransactionItems[i].tankId = "null"
       /\ salesTransactionItems[j].transactionId = resp.id
       /\ salesTransactionItems[j].tankId = Missing
  /\ stockMovements = <<>>
  /\ tanks = InitialStock

\* C12: a successful POST /sales whose payment method is not "credit" (cash,
\* card or fleet) leaves every customer's outstandingAmount unchanged,
\* whatever outstandingAmount the request carries.
C12_NonCreditLeavesBalances ==
  [][ (SalePosted /\ NewSaleRow.paymentMethod # "credit") => customers' = customers ]_vars

\* Cash, card and fleet sales that carry an outstanding amount were recorded
\* and no balance has moved.
C12_Witness ==
  /\ resp.op = "postSales" /\ resp.status = 201
  /\ \E r1, r2 \in salesTransactions :
       /\ r1.id = resp.id /\ r1.paymentMethod \in {"card", "fleet"}
       /\ r1.outstandingAmount > 0 /\ r1.customerId = "c1"
       /\ r2.paymentMethod = "cash" /\ r2.outstandingAmount > 0
  /\ customers = InitialCustomerOutstanding

\* The items stored for a transaction, in insertion order.
ItemsOf(rows, transactionId) ==
  SelectSeq(rows, LAMBDA r : r.transactionId = transactionId)

SalePut == resp'.op = "putSales" /\ resp'.status = 200

C14_PutLeavesDerivedState ==
  [][ resp'.op = "putSales" =>
        (stockMovements' = stockMovements /\ tanks' = tanks /\ customers' = customers) ]_vars

\* A credit sale of 6 from the tank was edited to two fuel items; the one
\* movement, the stock and the balance of the sale are as the sale left them.
C14_Witness ==
  /\ resp.op = "putSales" /\ resp.status = 200 /\ resp.items = <<FuelItem, FuelItem>>
  /\ Len(ItemsOf(salesTransactionItems, resp.id)) = 2
  /\ Len(stockMovements) = 1
  /\ stockMovements[1].referenceId = resp.id
  /\ tanks["t1"] = InitialStock["t1"] - FuelItem.quantity
  /\ customers["c1"] = InitialCustomerOutstanding["c1"] + 6

\* C15: DELETE /sales/:id by a caller whose station differs from the
\* transaction's station and whose role is not admin answers 403 and leaves
\* the transaction, its items and all derived state unchanged; a caller with
\* role admin is allowed whatever the stations: the transaction and its items
\* are deleted.
C15_DeleteAuthorization ==
  [][ resp'.op = "deleteSales" =>
        LET user == resp'.user
            row == getSalesTransaction(resp'.id)
        IN /\ (user.role # "admin" /\ user.stationId # row.stationId)
                => (resp'.status = 403 /\ UNCHANGED tables)
           /\ user.role = "admin"
                => /\ resp'.status = 200
                   /\ row \notin salesTransactions'
                   /\ ItemsOf(salesTransactionItems', resp'.id) = <<>> ]_vars

\* A manager of st2 was refused the deletion of a sale of st1 ...
C15_Witness ==
  /\ resp.op = "deleteSales" /\ resp.status = 403
  /\ resp.user.role = "manager" /\ resp.user.stationId = "st2"
  /\ \E r \in salesTransactions : r.id = resp.id /\ r.stationId = "st1"
  /\ Len(ItemsOf(salesTransactionItems, resp.id)) = 1

\* ... and the admin has deleted a sale, whose stock movement remains.
C15_AdminWitness ==
  /\ resp.op = "deleteSales" /\ resp.status = 200
  /\ resp.user.role = "admin"
  /\ \E k \in 1 .. Len(stockMovements) : stockMovements[k].referenceId = resp.id
  /\ \A r \in salesTransactions : r.id # resp.id

OrderPosted == resp'.op = "postPurchaseOrders" /\ resp'.status = 201

NewOrderRow == CHOOSE r \in purchaseOrders' : r.id = resp'.id

\* The sum over the items of quantity (thousandths) times unit price
\* (hundredths).
RECURSIVE SumOfProducts(_)
SumOfProducts(items) ==
  IF items = <<>> THEN 0
  ELSE Head(items).quantity * Head(items).unitPrice + SumOfProducts(Tail(items))

\* The tax rate (hundredths) configured for a station before the request: 0
\* when tax is disabled or the station has no settings.
ConfiguredTaxRate(stationId) ==
  LET rows == getSettings(settings, stationId)
  IN IF rows = {} THEN 0
     ELSE LET row == CHOOSE r \in rows : TRUE
          IN IF row.taxEnabled THEN row.taxRate ELSE 0

\* C16: for every successful POST /purchase-orders the persisted order has
\* subtotal equal to the sum over the submitted items of quantity times
\* unitPrice, taxAmount equal to subtotal times the station's configured tax
\* rate when tax is enabled and 0 when it is disabled or no settings existed,
\* and totalAmount = subtotal + taxAmount.
C16_OrderTotals ==
  [][ OrderPosted =>
        LET row == NewOrderRow
            rate == ConfiguredTaxRate(resp'.user.stationId)
        IN /\ row.subtotal * QuantityScale = SumOfProducts(resp'.body.items)
           /\ row.taxAmount * RateScale = row.subtotal * rate
           /\ row.totalAmount = row.subtotal + row.taxAmount ]_vars

\* The persisted total alone: totalAmount = subtotal + taxAmount.
C16_TotalIsSubtotalPlusTax ==
  \A r \in purchaseOrders : r.totalAmount = r.subtotal + r.taxAmount

\* C17: a POST /purchase-orders for a station that has no settings record
\* creates the default record of that station (tax disabled, tax rate 0) and
\* proceeds; in every reachable state there is at most one settings record
\* per station, and a record that exists is never replaced by the default.
C17_DefaultSettingsOnDemand ==
  /\ [](\A r1, r2 \in settings : r1.stationId = r2.stationId => r1 = r2)
  /\ [][ (resp'.op = "postPurchaseOrders" /\ resp'.status # 403
            /\ resp'.user.stationId # "") =>
          LET stationId == resp'.user.stationId
          IN IF getSettings(settings, stationId) = {}
               THEN /\ settings' = settings \cup
                         {[stationId |-> stationId, taxEnabled |-> FALSE, taxRate |-> 0]}
                    /\ resp'.message # "User station not found."
               ELSE settings' = settings ]_vars

\* An order of a station without settings was recorded: the station has the
\* default record, the order no tax.
C17_Witness ==
  /\ resp.op = "postPurchaseOrders" /\ resp.status = 201
  /\ getSettings(settings, resp.user.stationId)
       = {[stationId |-> resp.user.stationId, taxEnabled |-> FALSE, taxRate |-> 0]}
  /\ \E r \in purchaseOrders :
       r.id = resp.id /\ r.stationId = resp.user.stationId /\ r.taxAmount = 0
  /\ \E r \in settings : r.stationId # resp.user.stationId /\ r.taxEnabled

\* C18: POST /purchase-orders creates no stock movement and leaves every
\* tank's currentStock and every supplier's outstandingAmount unchanged, also
\* when its items name tanks.
C18_OrderLeavesStockAndBalances ==
  [][ resp'.op = "postPurchaseOrders" =>
        (stockMovements' = stockMovements /\ tanks' = tanks /\ suppliers' = suppliers) ]_vars

\* An order with an item of tank t1 was recorded.
C18_Witness ==
  /\ resp.op = "postPurchaseOrders" /\ resp.status = 201
  /\ \E k \in 1 .. Len(purchaseOrderItems) :
       purchaseOrderItems[k].orderId = resp.id /\ purchaseOrderItems[k].tankId = "t1"
  /\ \E r \in purchaseOrders : r.id = resp.id /\ r.supplierId = "s1" /\ r.totalAmount > 0
  /\ stockMovements = <<>>
  /\ tanks = InitialStock
  /\ suppliers = InitialSupplierOutstanding

JournalEntryCreated == resp.op = "postJournalEntries" /\ resp.status = 201

\* C19: every journal entry that is created satisfies sum(debit) =
\* sum(credit) over its lines, and the equality is enforced when the entry is
\* created: a submission whose total debits differ from its total credits
\* creates no journal entry.
C19_JournalEntriesBalance ==
  JournalEntryCreated => SumSeq(resp.lines, "debit") = SumSeq(resp.lines, "credit")

\* The same of the entries submitted through the form alone.
C19_FormEntriesBalance ==
  (JournalEntryCreated /\ resp.via = "form")
    => SumSeq(resp.lines, "debit") = SumSeq(resp.lines, "credit")

\* The movements of a tank among those a step created.
NewMovementsOf(tankId) == SelectSeq(NewMovements, LAMBDA m : m.tankId = tankId)

\* C20: a tank's currentStock is mutated only through stock movement
\* creation: between any two consecutive states in which a tank's
\* currentStock differs, exactly one stock movement of that tank was created,
\* and its previousStock and newStock are the old and the new value.
C20_StockOnlyThroughMovements ==
  [][ \A t \in Tanks :
        tanks'[t] # tanks[t] =>
          /\ Len(NewMovementsOf(t)) = 1
          /\ NewMovementsOf(t)[1].previousStock = tanks[t]
          /\ NewMovementsOf(t)[1].newStock = tanks'[t] ]_vars

\* newStock = previousStock + quantity for "in", - quantity for "out".
DirectionApplied(m) ==
  /\ m.movementType = "in" => m.newStock = m.previousStock + m.quantity
  /\ m.movementType = "out" => m.newStock = m.previousStock - m.quantity

\* No step changes or deletes a stored movement.
AppendOnly ==
  /\ Len(stockMovements') >= Len(stockMovements)
  /\ SubSeq(stockMovements', 1, Len(stockMovements)) = stockMovements

\* C21: every persisted stock movement, created by a sale or by
\* POST /stock-movements, has newStock = previousStock + quantity for "in" and
\* previousStock - quantity for "out", its previousStock is the tank's
\* currentStock immediately before the movement, and no operation changes or
\* deletes a stored movement.
C21_MovementLedger ==
  [][ /\ AppendOnly
      /\ \A k \in 1 .. Len(NewMovements) :
           /\ DirectionApplied(NewMovements[k])
           /\ NewMovements[k].previousStock = currentStock(tanks, NewMovements[k].tankId) ]_vars

\* The parts of C21 that hold under every interleaving.
C21_AppendOnlyAndDirection ==
  [][ /\ AppendOnly
      /\ \A k \in 1 .. Len(NewMovements) : DirectionApplied(NewMovements[k]) ]_vars

\* C22: every persisted sales transaction has totalAmount = subtotal +
\* taxAmount, and every persisted credit sale has outstandingAmount =
\* totalAmount - paidAmount, after POST /sales and after any PUT /sales/:id.
C22_AmountsAddUp ==
  \A r \in salesTransactions :
    /\ r.totalAmount = r.subtotal + r.taxAmount
    /\ r.paymentMethod = "credit" => r.outstandingAmount = r.totalAmount - r.paidAmount

\* C23: every persisted sales transaction item has totalPrice equal to
\* quantity * unitPrice, whether POST /sales created it or PUT /sales/:id
\* recreated it.
C23_ItemTotalPrice ==
  \A k \in 1 .. Len(salesTransactionItems) :
    salesTransactionItems[k].totalPrice =
      salesTransactionItems[k].quantity * salesTransactionItems[k].unitPrice

\* A settings request that reached the insert for a station that has settings.
DuplicateSettingsRequest ==
  /\ resp'.op = "postSettings"
  /\ resp'.status # 403
  /\ ~UniqueStation(settings, resp'.id)

\* An account request with its required fields whose code exists for its
\* station.
DuplicateAccountRequest ==
  /\ resp'.op = "postAccounts"
  /\ resp'.body.stationId # ""
  /\ resp'.body.code # ""
  /\ existingAccount(accounts, resp'.body) # {}

\* C24: a create request that violates a unique constraint is answered 409
\* and changes nothing, both for settings of a station that has settings and
\* for an account whose code exists for the station.
C24_UniqueViolationIsConflict ==
  [][ (DuplicateSettingsRequest \/ DuplicateAccountRequest)
        => (resp'.status = 409 /\ settings' = settings /\ accounts' = accounts) ]_vars

\* The settings half of C24, which holds.
C24_DuplicateSettingsIsConflict ==
  [][ DuplicateSettingsRequest => (resp'.status = 409 /\ settings' = settings) ]_vars

\* The account half of C24 as the code has it: 400, nothing changed.
C24_DuplicateAccountIsBadRequest ==
  [][ DuplicateAccountRequest => (resp'.status = 400 /\ accounts' = accounts) ]_vars

\* The parse of the header or of an item failed: the header is invalid, or
\* no storage error was caught and an item is invalid.
ValidationFailed(r) ==
  \/ ~ValidTransaction(r.t)
  \/ r.error = "" /\ \E k \in 1 .. Len(r.items) : ~ValidItem(r.items[k])

\* A storage error other than the unique violation was caught.
PersistenceFailed(r) == r.error \notin {"", DuplicateKey}

SaleFailed == resp'.op = "postSales" /\ resp'.status # 201

\* C25: in POST /sales a schema-validation failure is answered 400 with a
\* structured list of field errors, and a failure that is neither a validation
\* failure nor a unique-constraint conflict is answered 500 with a generic
\* message.
C25_SaleErrorStatuses ==
  [][ SaleFailed =>
        /\ ValidationFailed(resp') => (resp'.status = 400 /\ resp'.errors)
        /\ PersistenceFailed(resp')
             => (resp'.status = 500 /\ resp'.message = "Invalid sales data") ]_vars

\* The validation half of C25, which holds.
C25_ValidationIs400WithErrors ==
  [][ (SaleFailed /\ ValidationFailed(resp'))
        => (resp'.status = 400 /\ resp'.errors) ]_vars

\* The other half as the code has it: 400, with the message of the error.
C25_PersistenceFailureIs400 ==
  [][ (SaleFailed /\ PersistenceFailed(resp'))
        => (resp'.status = 400 /\ ~resp'.errors) ]_vars

FreeOrderAnswered ==
  /\ resp'.op = "postPurchaseOrders"
  /\ UniqueOrderNumber(purchaseOrders, resp'.body.order.orderNumber)

\* C27: concurrent POST /purchase-orders requests of a station without
\* settings all complete successfully, each creating its order and items, and
\* leave exactly one settings record for the station.
C27_ConcurrentOrdersSucceed ==
  [][ FreeOrderAnswered =>
        /\ resp'.status = 201
        /\ \E o \in purchaseOrders' \ purchaseOrders : o.id = resp'.id
        /\ Cardinality(getSettings(settings', resp'.user.stationId)) = 1 ]_vars

\* The half of C27 that holds: never more than one settings record per
\* station.
C27_OneSettingsRecord ==
  \A stationId \in Stations : Cardinality(getSettings(settings, stationId)) <= 1

\* The records a step deleted.
Deleted(before, after) == DOMAIN before \ DOMAIN after

\* C28: a customer or supplier whose outstandingAmount is greater than 0 is
\* never deleted: the delete routes answer 400 and leave the record
\* unchanged, also when a credit sale of the customer runs concurrently with
\* the delete request.
C28_NoDeleteWithOutstanding ==
  [][ /\ \A c \in Deleted(customers, customers') : ~(customers[c] > 0)
      /\ \A s \in Deleted(suppliers, suppliers') : ~(suppliers[s] > 0)
      /\ (resp'.op = "deleteCustomers" /\ resp'.id \in DOMAIN customers
            /\ customers[resp'.id] > 0)
           => (resp'.status = 400 /\ customers' = customers)
      /\ (resp'.op = "deleteSuppliers" /\ resp'.id \in DOMAIN suppliers
            /\ suppliers[resp'.id] > 0)
           => (resp'.status = 400 /\ suppliers' = suppliers) ]_vars

\* The part of C28 that holds: a delete request that reads an outstanding
\* amount greater than 0 is answered 400 and deletes nothing.
C28_ReadOutstandingRefuses ==
  [][ (resp'.op \in {"deleteCustomers", "deleteSuppliers"} /\ resp'.status = 400)
        => (customers' = customers /\ suppliers' = suppliers) ]_vars

\* The users row of a name.
UserNamed(rows, username) == CHOOSE r \in rows : r.username = username

\* The accounts the seed or an administrator made active.
ApprovedByAdmin(row) ==
  \/ row.approvedBy = "seed"
  \/ \E a \in users : a.username = row.approvedBy /\ a.role = "admin"

\* C29: an account created through POST /auth/signup with a non-admin role is
\* inactive and gets no token from POST /auth/login until an authenticated
\* admin has set its isActive flag; no sequence of unauthenticated requests
\* yields a token for an admin-role or active account that no admin approved.
C29_TokensNeedApproval ==
  [][ /\ (resp'.op = "signup" /\ resp'.status = 201 /\ resp'.body.role # "admin")
           => ~UserNamed(users', resp'.body.username).isActive
      /\ \A username \in tokens' \ tokens :
           ApprovedByAdmin(UserNamed(users, username)) ]_vars

\* The half of C29 that holds: a non-admin account that signed up is inactive
\* and gets no token while it is inactive.
C29_InactiveGetsNoToken ==
  [][ /\ (resp'.op = "signup" /\ resp'.status = 201 /\ resp'.body.role # "admin")
           => ~UserNamed(users', resp'.body.username).isActive
      /\ \A username \in tokens' \ tokens :
           LET row == UserNamed(users, username)
           IN row.role # "admin" => row.isActive ]_vars

\* C30: every payment created through POST /payments has the userId and the
\* stationId of the authenticated caller, whatever userId or stationId the
\* body carries; a caller with no station creates no payment (400).
C30_PaymentAttribution ==
  [][ resp'.op = "postPayments" =>
        IF resp'.user.stationId = ""
          THEN resp'.status = 400 /\ payments' = payments
          ELSE \A p \in payments' \ payments :
                 p.userId = resp'.user.id /\ p.stationId = resp'.user.stationId ]_vars

\* A payment was created from a body that names another user and another
\* station than the caller's.
C30_Witness ==
  /\ resp.op = "postPayments"
  /\ resp.status = 201
  /\ resp.body.userId # resp.user.id
  /\ resp.body.stationId # resp.user.stationId
  /\ \E p \in payments :
       p.id = resp.id /\ p.userId = resp.user.id /\ p.stationId = resp.user.stationId

\* A caller without a station was refused.
C30_NoStationWitness ==
  /\ resp.op = "postPayments"
  /\ resp.status = 400
  /\ resp.user.stationId = ""
====
